---------------------------- MODULE Spec2Model ----------------------------
(***************************************************************************)
(* gomailer: one Mailer interface over five transactional-email providers. *)
(* The model follows one Mailer value from New through its builder calls   *)
(* to Send.  Send is one atomic step: it runs against the files on disk    *)
(* and the answer of the network that the step draws as inputs.            *)
(***************************************************************************)
EXTENDS Integers, Sequences, FiniteSets, TLC

VARIABLES
    m,      \* the Mailer returned by New (NoMailer: nil)
    err,    \* the error returned by New
    args,   \* history: the arguments each setter was called with on m
    last    \* observation: the call just made, its return value and its I/O

vars == <<m, err, args, last>>

---------------------------------------------------------------------------
\* Bounds of the model.

\* The parts of a message explored: the fields set, the entries of its lists
\* and of its reader maps.
MaxParts == 4

\* A Send is explored while the Mailer holds fewer resolved attachments.
MaxResolved == 1

---------------------------------------------------------------------------
\* mailer.go: constants and types.

Undefined == 1
MAILGUN == 2
SENDGRID == 3
POSTMARK == 4
MAILJET == 5
CUSTOMERIO == 6

\* driver values handed to New: the zero value, the blank constant, the five
\* drivers and one value past them.
Drivers == 0..7

mailgunMaxFileSize == 25000000
mailgunMaxReceipents == 1000
sendgridMaxFileSize == 30000000
sendgridMaxReceipents == 1000
postmarkMaxFileSize == 5000000
postmarkMaxReceipents == 50
mailjetMaxFileSize == 15000000
mailjetMaxReceipents == 50
customerioMaxFileSize == 30000000
customerioMaxReceipents == 1000

StatusOK == 200
StatusAccepted == 202

\* address{Name, Email}; mailjetAddress has the same two fields.
address(name, email) == [Name |-> name, Email |-> email]

ZeroAddress == address("", "")

\* The values the builder calls are made with.
Addresses == {address("", ""), address("Jane", "jane@example.com")}

Strings == {"", "text"}

\* A path is the sequence of its characters.
a_jpg == <<"a", ".", "j", "p", "g">>
some_file_zip == <<"s", "o", "m", "e", "/", "f", "i", "l", "e", ".", "z", "i", "p">>
in_b_png == <<"i", "n", "/", "b", ".", "p", "n", "g">>

Paths == {a_jpg, some_file_zip}

\* The bytes of a file or of a stream are either spelled out, or known only
\* by where they come from and how many they are.
Spelled(bytes) == [bytes |-> bytes]
Unspelled(source, size) == [of |-> source, size |-> size]

\* The names and the readers AttachmentReader is called with: a reader that
\* gives two bytes, and one whose Read fails.
ReaderNames == {a_jpg}

Readers ==
    {[data |-> Spelled(<<104, 105>>), fails |-> FALSE],
     [data |-> Spelled(<< >>), fails |-> TRUE]}

\* A BaseURL that url.Parse refuses ("missing protocol scheme").
MalformedURL == "://malformed"

\* Configs: every field is a string but RequestTimeout (seconds here).
ZeroConfigs ==
    [ServerToken |-> "", AccountToken |-> "", APIKey |-> "", PrivateKey |-> "",
     PublicKey |-> "", BaseURL |-> "", Domain |-> "", Username |-> "",
     Password |-> "", RequestTimeout |-> 0]

FullConfigs ==
    [ZeroConfigs EXCEPT !.ServerToken = "server-token", !.AccountToken = "account-token",
                        !.APIKey = "api-key", !.PrivateKey = "private-key",
                        !.PublicKey = "public-key", !.Domain = "example.com"]

\* The Configs values New is called with: nothing set, everything set, and
\* two halves, each with one token and one key of every pair.
ConfigsChoices ==
    {ZeroConfigs,
     FullConfigs,
     [ZeroConfigs EXCEPT !.AccountToken = "account-token", !.PublicKey = "public-key",
                         !.APIKey = "api-key"],
     [ZeroConfigs EXCEPT !.ServerToken = "server-token", !.PrivateKey = "private-key",
                         !.Domain = "example.com", !.BaseURL = "http://localhost:8080",
                         !.RequestTimeout = 30],
     [FullConfigs EXCEPT !.BaseURL = MalformedURL]}

\* error values
NoError == [nil |-> TRUE]
errorsNew(text) == [errorString |-> text]
PathError(op, p) == [op |-> op, path |-> p]

\* a nil Mailer
NoMailer == [nil |-> TRUE]

NilMap == << >>

\* The struct mailFactory builds for driver d.  Every adapter is kept in one
\* record shape; mailgun and mailjet have no readers and no attachments
\* field, postmark no readers: their code never touches those entries.
NewMailer(d, c) ==
    [driver |-> d,
     c |-> [timeOut |-> c.RequestTimeout],
     configs |-> c,
     from |-> ZeroAddress,
     toList |-> << >>,
     ccList |-> << >>,
     bccList |-> << >>,
     replyTo |-> ZeroAddress,
     subject |-> "",
     bodyHTML |-> "",
     bodyText |-> "",
     attachmentFiles |-> << >>,
     attachmentInlineFiles |-> << >>,
     attachmentReaders |-> NilMap,
     attachmentInlineReaders |-> NilMap,
     attachments |-> << >>]

\* A mailFactory whose default case gives a mailgun adapter.
mailFactory_DefaultMailgun(d, c) ==
    IF d \in {MAILJET, SENDGRID, POSTMARK, CUSTOMERIO}
    THEN [mailer |-> NewMailer(d, c), err |-> NoError]
    ELSE [mailer |-> NewMailer(MAILGUN, c), err |-> NoError]

\* mailFactory: the returned pair.
mailFactory(d, c) ==
    IF d \in {MAILGUN, MAILJET, SENDGRID, POSTMARK, CUSTOMERIO}
    THEN [mailer |-> NewMailer(d, c), err |-> NoError]
    ELSE [mailer |-> NoMailer, err |-> errorsNew("gomailer: unsupported mail driver")]

---------------------------------------------------------------------------
\* The builder setters.  The five adapters' setters are the same code on
\* their own struct; each takes the receiver and returns it changed.

\* A From that sets the email and keeps the name.
From_EmailOnly(s, a) == [s EXCEPT !.from.Email = a.Email]

From(s, a) == [s EXCEPT !.from = a]

To(s, a) == [s EXCEPT !.toList = Append(@, a)]

\* A Cc that appends to the bcc list.
Cc_IntoBcc(s, a) == [s EXCEPT !.bccList = Append(@, a)]

Cc(s, a) == [s EXCEPT !.ccList = Append(@, a)]

Bcc(s, a) == [s EXCEPT !.bccList = Append(@, a)]

ReplyTo(s, a) == [s EXCEPT !.replyTo = a]

\* A Subject that empties the text body as well.
Subject_ClearsBody(s, subject) == [s EXCEPT !.subject = subject, !.bodyText = ""]

Subject(s, subject) == [s EXCEPT !.subject = subject]

BodyHTML(s, body) == [s EXCEPT !.bodyHTML = body]

BodyText(s, body) == [s EXCEPT !.bodyText = body]

AttachmentFile(s, file) == [s EXCEPT !.attachmentFiles = Append(@, file)]

AttachmentInlineFile(s, file) == [s EXCEPT !.attachmentInlineFiles = Append(@, file)]

\* An AttachmentReader that keeps the map it finds and adds to it.
sendgrid_AttachmentReader_Accumulate(s, file, r) ==
    [s EXCEPT !.attachmentReaders = (file :> [size |-> 0, r |-> r]) @@ @]

\* sendgrid and customerio: the map is made anew on every call, so it holds
\* the one entry of this call.  r is the reader: the bytes it still has to
\* give, and whether reading it fails.
sendgrid_AttachmentReader(s, file, r) ==
    [s EXCEPT !.attachmentReaders = (file :> [size |-> 0, r |-> r])]

sendgrid_AttachmentInlineReader(s, file, r) ==
    [s EXCEPT !.attachmentInlineReaders = (file :> [size |-> 0, r |-> r])]

customerio_AttachmentReader(s, file, r) ==
    [s EXCEPT !.attachmentReaders = (file :> [size |-> 0, r |-> r])]

customerio_AttachmentInlineReader(s, file, r) ==
    [s EXCEPT !.attachmentInlineReaders = (file :> [size |-> 0, r |-> r])]

\* mailjet and postmark: "gomailer: not implemented" is logged, nothing is kept.
mailjet_AttachmentReader(s, file, r) == s

mailjet_AttachmentInlineReader(s, file, r) == s

postmark_AttachmentReader(s, file, r) == s

postmark_AttachmentInlineReader(s, file, r) == s

---------------------------------------------------------------------------
\* What a Send runs against.

\* A file on disk: os.Stat succeeds when it exists, reading it when it is
\* also readable.
Missing == [exists |-> FALSE, readable |-> FALSE, size |-> 0]
File(size, readable) == [exists |-> TRUE, readable |-> readable, size |-> size]

\* The network's answer to a request: client.Do fails with a transport
\* error, or a response comes with its status and the body text that
\* ioutil.ReadAll gets out of it (readErr: its error, after a partial body).
TransportError == [netError |-> "dial tcp: i/o timeout"]
BodyReadError == [netError |-> "unexpected EOF"]
Response(status, body, readErr) ==
    [kind |-> "response", status |-> status, body |-> body, readErr |-> readErr]
DoError(e) == [kind |-> "error", err |-> e]

\* What the call just made did: how it ended (a panic or a return), with
\* which value, the I/O it did in order, and the receiver afterwards.
Panicked(v, io, s) == [outcome |-> "panic", value |-> [panic |-> v], io |-> io, m |-> s]
Returned(e, io, s) == [outcome |-> "return", value |-> e, io |-> io, m |-> s]

Min(S) == CHOOSE x \in S : \A y \in S : x <= y

RECURSIVE SumSizes(_, _, _)
SumSizes(files, n, disk) ==
    IF n = 0 THEN 0 ELSE disk[files[n]].size + SumSizes(files, n - 1, disk)

\* for _, f := range files { fi, e := os.Stat(f); if e != nil { return e };
\* totalSize += fi.Size() }
StatFiles(files, disk) ==
    LET bad == {i \in 1..Len(files) : ~disk[files[i]].exists}
        n == IF bad = {} THEN Len(files) ELSE Min(bad)
    IN  [err |-> IF bad = {} THEN NoError ELSE PathError("stat", files[n]),
         io |-> [i \in 1..n |-> [ev |-> "stat", path |-> files[i]]],
         totalSize |-> IF bad = {} THEN SumSizes(files, n, disk) ELSE 0]

Max(S) == CHOOSE x \in S : \A y \in S : y <= x

\* filepath.Base: the last element of the path, after the trailing slashes
\* are taken off; "." for the empty path and "/" for one of slashes only.
Base(p) ==
    LET kept == {i \in 1..Len(p) : p[i] # "/"}
        end == Max(kept)
        slashes == {i \in 1..end : p[i] = "/"}
    IN  IF Len(p) = 0 THEN <<".">>
        ELSE IF kept = {} THEN <<"/">>
        ELSE SubSeq(p, IF slashes = {} THEN 1 ELSE Max(slashes) + 1, end)

\* filepath.Ext: the suffix from the last dot of the last element on, empty
\* when that element has no dot.
Ext(p) ==
    LET dots == {i \in 1..Len(p) : p[i] = "." /\ \A j \in i..Len(p) : p[j] # "/"}
    IN  IF dots = {} THEN << >> ELSE SubSeq(p, Max(dots), Len(p))

\* mime.TypeByExtension
TypeByExtension(ext) ==
    CASE ext = <<".", "j", "p", "g">> -> "image/jpeg"
      [] ext = <<".", "p", "n", "g">> -> "image/png"
      [] ext = <<".", "z", "i", "p">> -> "application/zip"
      [] ext = <<".", "t", "x", "t">> -> "text/plain; charset=utf-8"
      [] OTHER -> ""

\* const encodeStd of encoding/base64
encodeStd ==
    <<
      "A", "B", "C", "D", "E", "F", "G", "H", "I", "J", "K", "L", "M", "N", "O", "P",
      "Q", "R", "S", "T", "U", "V", "W", "X", "Y", "Z", "a", "b", "c", "d", "e", "f",
      "g", "h", "i", "j", "k", "l", "m", "n", "o", "p", "q", "r", "s", "t", "u", "v",
      "w", "x", "y", "z", "0", "1", "2", "3", "4", "5", "6", "7", "8", "9", "+", "/"
    >>

\* One group of an encoding without padding (base64.RawStdEncoding).
EncodeGroup_Raw(g) ==
    IF Len(g) = 3 THEN
        <<encodeStd[(g[1] \div 4) + 1],
          encodeStd[((g[1] % 4) * 16 + (g[2] \div 16)) + 1],
          encodeStd[((g[2] % 16) * 4 + (g[3] \div 64)) + 1],
          encodeStd[(g[3] % 64) + 1]>>
    ELSE IF Len(g) = 2 THEN
        <<encodeStd[(g[1] \div 4) + 1],
          encodeStd[((g[1] % 4) * 16 + (g[2] \div 16)) + 1],
          encodeStd[((g[2] % 16) * 4) + 1]>>
    ELSE
        <<encodeStd[(g[1] \div 4) + 1], encodeStd[((g[1] % 4) * 16) + 1]>>

\* One group of base64.StdEncoding: three bytes give four characters, a rest
\* of two bytes three characters and one "=", a rest of one byte two
\* characters and "==".
EncodeGroup(g) ==
    IF Len(g) = 3 THEN
        <<encodeStd[(g[1] \div 4) + 1],
          encodeStd[((g[1] % 4) * 16 + (g[2] \div 16)) + 1],
          encodeStd[((g[2] % 16) * 4 + (g[3] \div 64)) + 1],
          encodeStd[(g[3] % 64) + 1]>>
    ELSE IF Len(g) = 2 THEN
        <<encodeStd[(g[1] \div 4) + 1],
          encodeStd[((g[1] % 4) * 16 + (g[2] \div 16)) + 1],
          encodeStd[((g[2] % 16) * 4) + 1],
          "=">>
    ELSE
        <<encodeStd[(g[1] \div 4) + 1], encodeStd[((g[1] % 4) * 16) + 1], "=", "=">>

RECURSIVE Encode(_)
Encode(src) ==
    IF Len(src) = 0 THEN << >>
    ELSE IF Len(src) <= 3 THEN EncodeGroup(src)
    ELSE EncodeGroup(SubSeq(src, 1, 3)) \o Encode(SubSeq(src, 4, Len(src)))

\* b64.StdEncoding.EncodeToString: the text of bytes that are spelled out is
\* computed, the text of the others is known by the bytes it encodes.
EncodeToString(b) ==
    IF "bytes" \in DOMAIN b THEN [text |-> Encode(b.bytes)] ELSE [base64 |-> b]

\* len(b)
Size(b) == IF "bytes" \in DOMAIN b THEN Len(b.bytes) ELSE b.size

\* ioutil.ReadFile of a readable file
ReadFile(p, disk) == Unspelled(p, disk[p].size)

\* attachment.ReadFromFile on a readable file of the bytes b.
ReadFromFile(p, b) ==
    [Content |-> EncodeToString(b),
     Type |-> TypeByExtension(Ext(p)),
     FileName |-> Base(p),
     ContentID |-> Base(p),
     Disposition |-> "",
     Size |-> 0]

\* attachment.ReadFromReader on a reader that gives its bytes.
ReadFromReader(f, sri) ==
    [Content |-> EncodeToString(sri.r.data),
     Type |-> TypeByExtension(Ext(f)),
     FileName |-> Base(f),
     ContentID |-> Base(f),
     Disposition |-> "",
     Size |-> Size(sri.r.data)]

\* The ReadFromFile loop passing over a file it cannot read, without error.
ReadFiles_SkipUnreadable(files, d, disk) ==
    LET good == {i \in 1..Len(files) : disk[files[i]].exists /\ disk[files[i]].readable}
    IN  [err |-> NoError,
         io |-> [i \in 1..Len(files) |-> [ev |-> "read", path |-> files[i]]],
         attachments |-> IF good = {} THEN << >>
                         ELSE LET f == files[CHOOSE i \in good : TRUE]
                              IN  <<[ReadFromFile(f, ReadFile(f, disk))
                                       EXCEPT !.Disposition = d]>>]

\* for _, f := range files { a := attachment{}; err := a.ReadFromFile(f);
\* if err != nil { return err }; a.Disposition = d; append(attachments, a) }
ReadFiles(files, d, disk) ==
    LET bad == {i \in 1..Len(files) : ~(disk[files[i]].exists /\ disk[files[i]].readable)}
        n == IF bad = {} THEN Len(files) ELSE Min(bad)
        good == IF bad = {} THEN n ELSE n - 1
    IN  [err |-> IF bad = {} THEN NoError ELSE PathError("open", files[n]),
         io |-> [i \in 1..n |-> [ev |-> "read", path |-> files[i]]],
         attachments |-> [i \in 1..good |->
                            [ReadFromFile(files[i], ReadFile(files[i], disk))
                               EXCEPT !.Disposition = d]]]

\* for f, r := range readers { ... a.ReadFromReader(f, r) ... }: the map holds
\* at most one entry.  The reader is read to its end, so it is left empty.
ReadReaders(readers, d) ==
    IF DOMAIN readers = {} THEN
        [err |-> NoError, io |-> << >>, attachments |-> << >>, readers |-> readers]
    ELSE
        LET f == CHOOSE x \in DOMAIN readers : TRUE
            sri == readers[f]
        IN  IF sri.r.fails THEN
                [err |-> [readError |-> f], io |-> <<[ev |-> "copy", path |-> f]>>,
                 attachments |-> << >>, readers |-> readers]
            ELSE
                [err |-> NoError, io |-> <<[ev |-> "copy", path |-> f]>>,
                 attachments |-> <<[ReadFromReader(f, sri) EXCEPT !.Disposition = d]>>,
                 readers |-> (f :> [sri EXCEPT !.r.data = Spelled(<< >>)])]

\* address.format: "%s <%s>"
format(a) == <<a.Name, " <", a.Email, ">">>

\* lists: the formatted addresses, joined with commas.
lists(a) == [i \in 1..Len(a) |-> format(a[i])]

defaultTimeout == 60

\* A getDefaultClient that takes the default whatever timeOut holds.
getDefaultClient_AlwaysDefault(c) ==
    [c |-> [c EXCEPT !.timeOut = defaultTimeout],
     client |-> [Timeout |-> defaultTimeout, DialTimeout |-> defaultTimeout]]

\* client.getDefaultClient: a zero timeOut becomes the default, in the
\* receiver too.
getDefaultClient(c) ==
    LET t == IF c.timeOut = 0 THEN defaultTimeout ELSE c.timeOut
    IN  [c |-> [c EXCEPT !.timeOut = t],
         client |-> [Timeout |-> t, DialTimeout |-> t]]

\* http.NewRequest(method, url, body): the request, or the error of parsing
\* the URL.
NewRequest(req) ==
    IF req.url[1] = MalformedURL
    THEN [req |-> [nil |-> TRUE], err |-> [urlError |-> "parse", url |-> req.url]]
    ELSE [req |-> req, err |-> NoError]

NilDereference == "runtime error: invalid memory address or nil pointer dereference"

\* client.Do(req): the request is sent; this is the I/O event of it.
Do(req, client) == [ev |-> "http", req |-> req, client |-> client]

NoPanic == ""

---------------------------------------------------------------------------
\* mailgun.go

\* verifyParams: the panic message, NoPanic when every check passes.
mailgun_verifyParams(s) ==
    IF s.from.Email = "" THEN "gomailer: you must provide from"
    ELSE IF Len(s.toList) <= 0 THEN "gomailer: you must provide at least one receipent"
    ELSE IF Len(s.toList) + Len(s.ccList) + Len(s.bccList) > mailgunMaxReceipents
    THEN "mailer: total number of receipents including to/cc/bcc can not be greater than 1000 for mailgun"
    ELSE IF s.bodyText = "" /\ s.bodyHTML = "" THEN "gomailer: you must provide a Text or HTML body"
    ELSE NoPanic

mailgunBaseURL == "https://api.mailgun.net/v3"

\* messageURL: "%s/%s/messages"; it panics on an empty Domain.
mailgun_messageURL(s) ==
    LET url == IF s.configs.BaseURL # "" THEN s.configs.BaseURL ELSE mailgunBaseURL
    IN  IF s.configs.Domain = ""
        THEN [panic |-> "gomailer: you must provide domain name in Config", url |-> << >>]
        ELSE [panic |-> NoPanic, url |-> <<url, "/", s.configs.Domain, "/messages">>]

\* The form files of one multipart field: name[index], in the list's order.
FormFiles(field, fPaths) ==
    [i \in 1..Len(fPaths) |-> [paramName |-> <<field, i - 1>>, fPath |-> fPaths[i]]]

\* processMailgunRequest.  fields is the order in which range gives the two
\* keys of the files map.
mailgun_processMailgunRequest(s, params, files, fields, disk, net, io0) ==
    LET all == FormFiles(fields[1], files[fields[1]]) \o FormFiles(fields[2], files[fields[2]])
        bad == {i \in 1..Len(all) :
                  ~(disk[all[i].fPath].exists /\ disk[all[i].fPath].readable)}
        n == IF bad = {} THEN Len(all) ELSE Min(bad)
        io1 == io0 \o [i \in 1..n |-> [ev |-> "open", path |-> all[i].fPath]]
        u == mailgun_messageURL(s)
        req == [method |-> "POST", url |-> u.url,
                auth |-> [basic |-> <<"api", s.configs.APIKey>>],
                contentType |-> "multipart/form-data",
                fields |-> params,
                files |-> [i \in 1..Len(all) |->
                             [paramName |-> all[i].paramName, filename |-> Base(all[i].fPath),
                              content |-> Unspelled(all[i].fPath, disk[all[i].fPath].size)]]]
        dc == getDefaultClient(s.c)
        s1 == [s EXCEPT !.c = dc.c]
        io2 == Append(io1, Do(req, dc.client))
    IN  IF bad # {} THEN Returned(PathError("open", all[n].fPath), io1, s)
        ELSE IF u.panic # NoPanic THEN Panicked(u.panic, io1, s)
        ELSE IF NewRequest(req).err # NoError THEN Panicked(NilDereference, io1, s)
        ELSE IF net.kind = "error" THEN Returned(net.err, io2, s1)
        ELSE IF net.readErr # NoError THEN Returned(net.readErr, io2, s1)
        ELSE IF net.status # StatusOK THEN Returned(errorsNew(net.body), io2, s1)
        ELSE Returned(NoError, io2, s1)

mailgun_Send(s, fields, disk, net) ==
    LET v == mailgun_verifyParams(s)
        st == StatFiles(s.attachmentFiles, disk)
        params ==
            [from |-> <<format(s.from)>>,
             to |-> lists(s.toList),
             subject |-> s.subject,
             cc |-> lists(s.ccList),
             bcc |-> lists(s.bccList),
             hReplyTo |-> IF s.replyTo.Email # "" THEN <<format(s.replyTo)>> ELSE << >>,
             text |-> s.bodyText,
             html |-> s.bodyHTML]
        attachments == [attachment |-> s.attachmentFiles, inline |-> s.attachmentInlineFiles]
    IN  IF v # NoPanic THEN Panicked(v, << >>, s)
        ELSE IF st.err # NoError THEN Returned(st.err, st.io, s)
        ELSE IF st.totalSize > mailgunMaxFileSize
        THEN Returned(errorsNew("gomailer: max attachment size for mailgun is 25MB"), st.io, s)
        ELSE mailgun_processMailgunRequest(s, params, attachments, fields, disk, net, st.io)

---------------------------------------------------------------------------
\* sendgrid.go

sendgrid_verifyParams(s) ==
    IF s.from.Email = "" THEN "gomailer: you must provide from"
    ELSE IF Len(s.toList) <= 0 THEN "gomailer: you must provide at least one receipent"
    ELSE IF Len(s.toList) + Len(s.ccList) + Len(s.bccList) > sendgridMaxReceipents
    THEN "mailer: total number of receipents including to/cc/bcc can not be greater than 1000 for sendgrid"
    ELSE IF s.bodyText = "" /\ s.bodyHTML = "" THEN "gomailer: you must provide a Text or HTML body"
    ELSE NoPanic

sendgridBaseURL == "https://api.sendgrid.com/v3"

\* messageURL: "%s/mail/send"
sendgrid_messageURL(s) ==
    LET url == IF s.configs.BaseURL # "" THEN s.configs.BaseURL ELSE sendgridBaseURL
    IN  <<url, "/mail/send">>

\* processSendgridRequest taking 200, not 202, for sendgrid's success.
sendgrid_processSendgridRequest_StatusOK(s, bodyParams, net, io0) ==
    LET req == [method |-> "POST", url |-> sendgrid_messageURL(s),
                auth |-> IF s.configs.APIKey # ""
                         THEN [Authorization |-> <<"Bearer ", s.configs.APIKey>>]
                         ELSE [none |-> TRUE],
                contentType |-> "application/json",
                body |-> bodyParams]
        dc == getDefaultClient(s.c)
        s1 == [s EXCEPT !.c = dc.c]
        io1 == Append(io0, Do(req, dc.client))
    IN  IF NewRequest(req).err # NoError THEN Returned(NewRequest(req).err, io0, s)
        ELSE IF net.kind = "error" THEN Returned(net.err, io1, s1)
        ELSE IF net.status # StatusOK THEN Returned(errorsNew(net.body), io1, s1)
        ELSE Returned(NoError, io1, s1)

\* processSendgridRequest
sendgrid_processSendgridRequest(s, bodyParams, net, io0) ==
    LET req == [method |-> "POST", url |-> sendgrid_messageURL(s),
                auth |-> IF s.configs.APIKey # ""
                         THEN [Authorization |-> <<"Bearer ", s.configs.APIKey>>]
                         ELSE [none |-> TRUE],
                contentType |-> "application/json",
                body |-> bodyParams]
        dc == getDefaultClient(s.c)
        s1 == [s EXCEPT !.c = dc.c]
        io1 == Append(io0, Do(req, dc.client))
    IN  IF NewRequest(req).err # NoError THEN Returned(NewRequest(req).err, io0, s)
        ELSE IF net.kind = "error" THEN Returned(net.err, io1, s1)
        ELSE IF net.status # StatusAccepted THEN Returned(errorsNew(net.body), io1, s1)
        ELSE Returned(NoError, io1, s1)

\* How far the attachment loops of a Send have come: the error that stopped
\* them, the I/O they did in order, and the receiver with what they appended
\* to its attachments.
NoneBuilt(s) == [err |-> NoError, io |-> << >>, s |-> s]

\* for _, f := range s.attachmentFiles (or s.attachmentInlineFiles): every
\* attachment read is appended to s.attachments at once, so what was read
\* before a failing file stays there.
AppendFiles(b, inlined, disk) ==
    IF b.err # NoError THEN b
    ELSE LET a == IF inlined THEN ReadFiles(b.s.attachmentInlineFiles, "inline", disk)
                  ELSE ReadFiles(b.s.attachmentFiles, "attachment", disk)
         IN  [err |-> a.err, io |-> b.io \o a.io,
              s |-> [b.s EXCEPT !.attachments = @ \o a.attachments]]

\* for f, r := range s.attachmentReaders (or s.attachmentInlineReaders)
AppendReaders(b, inlined) ==
    IF b.err # NoError THEN b
    ELSE LET a == IF inlined THEN ReadReaders(b.s.attachmentInlineReaders, "inline")
                  ELSE ReadReaders(b.s.attachmentReaders, "attachment")
         IN  [err |-> a.err, io |-> b.io \o a.io,
              s |-> IF inlined
                    THEN [b.s EXCEPT !.attachments = @ \o a.attachments,
                                     !.attachmentInlineReaders = a.readers]
                    ELSE [b.s EXCEPT !.attachments = @ \o a.attachments,
                                     !.attachmentReaders = a.readers]]

\* The four attachment loops of sendgrid.Send and customerio.Send, which are
\* the same code: files, readers, inline files, inline readers.
BuildAttachments(s, disk) ==
    AppendReaders(
        AppendFiles(AppendReaders(AppendFiles(NoneBuilt(s), FALSE, disk), FALSE),
                    TRUE, disk),
        TRUE)

\* The JSON body of the request, made of the receiver.
sendgrid_params(s) ==
    [from |-> s.from,
     personalizations |->
        <<[to |-> s.toList, cc |-> s.ccList, bcc |-> s.bccList, subject |-> s.subject]>>,
     reply_to |-> IF s.replyTo.Email # "" THEN <<s.replyTo>> ELSE << >>,
     content |->
        (IF s.bodyText # "" THEN <<[Type |-> "text/plain", Value |-> s.bodyText]>> ELSE << >>)
        \o (IF s.bodyHTML # "" THEN <<[Type |-> "text/html", Value |-> s.bodyHTML]>>
            ELSE << >>),
     attachments |-> s.attachments]

\* Send from the attachment loops on: b is what they did, io0 the I/O before.
sendgrid_SendBuilt(b, net, io0) ==
    IF b.err # NoError THEN Returned(b.err, io0 \o b.io, b.s)
    ELSE sendgrid_processSendgridRequest(b.s, sendgrid_params(b.s), net, io0 \o b.io)

sendgrid_Send(s, disk, net) ==
    LET v == sendgrid_verifyParams(s)
        st == StatFiles(s.attachmentFiles, disk)
    IN  IF v # NoPanic THEN Panicked(v, << >>, s)
        ELSE IF st.err # NoError THEN Returned(st.err, st.io, s)
        ELSE IF st.totalSize > sendgridMaxFileSize
        THEN Returned(errorsNew("gomailer: max attachment size for sendgrid is 30MB"), st.io, s)
        ELSE sendgrid_SendBuilt(BuildAttachments(s, disk), net, st.io)

---------------------------------------------------------------------------
\* postmark

\* postmark_verifyParams with the ceiling compared by >= : a message of
\* exactly postmarkMaxReceipents recipients is refused.
postmark_verifyParams_AtLeast(s) ==
    IF s.configs.AccountToken = "" /\ s.configs.ServerToken = ""
    THEN "gomailer: for postmarkapp you must provide AccountToken or ServerToken in config"
    ELSE IF s.from.Email = "" THEN "gomailer: you must provide from"
    ELSE IF Len(s.toList) <= 0 THEN "gomailer: you must provide at least one receipent"
    ELSE IF Len(s.toList) + Len(s.ccList) + Len(s.bccList) >= postmarkMaxReceipents
    THEN "mailer: total number of receipents including to/cc/bcc can not be greater than 50 for postmark"
    ELSE IF s.bodyText = "" /\ s.bodyHTML = "" THEN "gomailer: you must provide a Text or HTML body"
    ELSE NoPanic

postmark_verifyParams(s) ==
    IF s.configs.AccountToken = "" /\ s.configs.ServerToken = ""
    THEN "gomailer: for postmarkapp you must provide AccountToken or ServerToken in config"
    ELSE IF s.from.Email = "" THEN "gomailer: you must provide from"
    ELSE IF Len(s.toList) <= 0 THEN "gomailer: you must provide at least one receipent"
    ELSE IF Len(s.toList) + Len(s.ccList) + Len(s.bccList) > postmarkMaxReceipents
    THEN "mailer: total number of receipents including to/cc/bcc can not be greater than 50 for postmark"
    ELSE IF s.bodyText = "" /\ s.bodyHTML = "" THEN "gomailer: you must provide a Text or HTML body"
    ELSE NoPanic

postmarkBaseURL == "https://api.postmarkapp.com"

\* messageURL: "%s/email"
postmark_messageURL(s) ==
    LET url == IF s.configs.BaseURL # "" THEN s.configs.BaseURL ELSE postmarkBaseURL
    IN  <<url, "/email">>

\* processPostmarkRequest
postmark_processPostmarkRequest(s, bodyParams, net, io0) ==
    LET req == [method |-> "POST", url |-> postmark_messageURL(s),
                auth |-> [headers |->
                            (IF s.configs.AccountToken # ""
                             THEN {<<"X-Postmark-Account-Token", s.configs.AccountToken>>}
                             ELSE {})
                            \cup (IF s.configs.ServerToken # ""
                                  THEN {<<"X-Postmark-Server-Token", s.configs.ServerToken>>}
                                  ELSE {})],
                contentType |-> "application/json",
                body |-> bodyParams]
        dc == getDefaultClient(s.c)
        s1 == [s EXCEPT !.c = dc.c]
        io1 == Append(io0, Do(req, dc.client))
    IN  IF NewRequest(req).err # NoError THEN Returned(NewRequest(req).err, io0, s)
        ELSE IF net.kind = "error" THEN Returned(net.err, io1, s1)
        ELSE IF net.status # StatusOK THEN Returned(errorsNew(net.body), io1, s1)
        ELSE Returned(NoError, io1, s1)

postmark_Send(s, disk, net) ==
    LET v == postmark_verifyParams(s)
        st == StatFiles(s.attachmentFiles, disk)
        a1 == ReadFiles(s.attachmentFiles, "attachment", disk)
        s1 == [s EXCEPT !.attachments = @ \o a1.attachments]
        a2 == ReadFiles(s.attachmentInlineFiles, "inline", disk)
        s2 == [s1 EXCEPT !.attachments = @ \o a2.attachments]
        params ==
            [From |-> <<format(s2.from)>>,
             Subject |-> s2.subject,
             To |-> lists(s2.toList),
             Cc |-> lists(s2.ccList),
             Bcc |-> lists(s2.bccList),
             ReplyTo |-> IF s2.replyTo.Email # "" THEN <<s2.replyTo>> ELSE << >>,
             TextBody |-> s2.bodyText,
             HtmlBody |-> s2.bodyHTML,
             Attachments |->
                [i \in 1..Len(s2.attachments) |->
                    [Name |-> s2.attachments[i].FileName,
                     Content |-> s2.attachments[i].Content,
                     ContentType |-> s2.attachments[i].Type,
                     ContentID |-> s2.attachments[i].ContentID]]]
    IN  IF v # NoPanic THEN Panicked(v, << >>, s)
        ELSE IF st.err # NoError THEN Returned(st.err, st.io, s)
        ELSE IF st.totalSize > postmarkMaxFileSize
        THEN Returned(errorsNew("gomailer: max attachment size for postmark is 5MB"), st.io, s)
        ELSE IF a1.err # NoError THEN Returned(a1.err, st.io \o a1.io, s1)
        ELSE IF a2.err # NoError THEN Returned(a2.err, st.io \o a1.io \o a2.io, s2)
        ELSE postmark_processPostmarkRequest(s2, params, net, st.io \o a1.io \o a2.io)

---------------------------------------------------------------------------
\* mailjet

\* A mailjet verifyParams that asks for one of the two keys only.
mailjet_verifyParams_EitherKey(s) ==
    IF s.configs.PrivateKey = "" /\ s.configs.PublicKey = ""
    THEN "gomailer: for mailjetapp you must provide PrivateKey and PublicKey in config"
    ELSE IF s.from.Email = "" THEN "gomailer: you must provide from"
    ELSE IF Len(s.toList) <= 0 THEN "gomailer: you must provide at least one receipent"
    ELSE IF Len(s.toList) + Len(s.ccList) + Len(s.bccList) > mailjetMaxReceipents
    THEN "mailer: total number of receipents including to/cc/bcc can not be greater than 50 for mailjet"
    ELSE IF s.bodyText = "" /\ s.bodyHTML = "" THEN "gomailer: you must provide a Text or HTML body"
    ELSE NoPanic

mailjet_verifyParams(s) ==
    IF s.configs.PrivateKey = "" \/ s.configs.PublicKey = ""
    THEN "gomailer: for mailjetapp you must provide PrivateKey and PublicKey in config"
    ELSE IF s.from.Email = "" THEN "gomailer: you must provide from"
    ELSE IF Len(s.toList) <= 0 THEN "gomailer: you must provide at least one receipent"
    ELSE IF Len(s.toList) + Len(s.ccList) + Len(s.bccList) > mailjetMaxReceipents
    THEN "mailer: total number of receipents including to/cc/bcc can not be greater than 50 for mailjet"
    ELSE IF s.bodyText = "" /\ s.bodyHTML = "" THEN "gomailer: you must provide a Text or HTML body"
    ELSE NoPanic

mailjetBaseURL == "https://api.mailjet.com/v3.1"

\* messageURL: "%s/send"
mailjet_messageURL(s) ==
    LET url == IF s.configs.BaseURL # "" THEN s.configs.BaseURL ELSE mailjetBaseURL
    IN  <<url, "/send">>

\* processMailjetRequest sending the request again when the provider
\* answers with a failure.
mailjet_processMailjetRequest_Retry(s, bodyParams, net, io0) ==
    LET req == [method |-> "POST", url |-> mailjet_messageURL(s),
                auth |-> [basic |-> <<s.configs.PublicKey, s.configs.PrivateKey>>],
                contentType |-> "application/json",
                body |-> bodyParams]
        dc == getDefaultClient(s.c)
        s1 == [s EXCEPT !.c = dc.c]
        io1 == Append(io0, Do(req, dc.client))
        io2 == Append(io1, Do(req, dc.client))
    IN  IF NewRequest(req).err # NoError THEN Returned(NewRequest(req).err, io0, s)
        ELSE IF net.kind = "error" THEN Returned(net.err, io1, s1)
        ELSE IF net.status # StatusOK THEN Returned(errorsNew(net.body), io2, s1)
        ELSE Returned(NoError, io1, s1)

\* processMailjetRequest
mailjet_processMailjetRequest(s, bodyParams, net, io0) ==
    LET req == [method |-> "POST", url |-> mailjet_messageURL(s),
                auth |-> [basic |-> <<s.configs.PublicKey, s.configs.PrivateKey>>],
                contentType |-> "application/json",
                body |-> bodyParams]
        dc == getDefaultClient(s.c)
        s1 == [s EXCEPT !.c = dc.c]
        io1 == Append(io0, Do(req, dc.client))
    IN  IF NewRequest(req).err # NoError THEN Returned(NewRequest(req).err, io0, s)
        ELSE IF net.kind = "error" THEN Returned(net.err, io1, s1)
        ELSE IF net.status # StatusOK THEN Returned(errorsNew(net.body), io1, s1)
        ELSE Returned(NoError, io1, s1)

\* The mailjetAttachment made of an attachment; only the inlined ones carry
\* the ContentID.
mailjetAttachment(a, inlined) ==
    [Name |-> a.FileName, Content |-> a.Content, ContentType |-> a.Type,
     ContentID |-> IF inlined THEN a.ContentID ELSE ""]

\* totalFiles is attachmentFiles appended twice.
mailjet_Send(s, disk, net) ==
    LET v == mailjet_verifyParams(s)
        totalFiles == s.attachmentFiles \o s.attachmentFiles
        st == StatFiles(totalFiles, disk)
        a1 == ReadFiles(s.attachmentFiles, "", disk)
        a2 == ReadFiles(s.attachmentInlineFiles, "", disk)
        params ==
            [From |-> s.from,
             Subject |-> s.subject,
             To |-> s.toList,
             Cc |-> s.ccList,
             Bcc |-> s.bccList,
             ReplyTo |-> IF s.replyTo.Email # "" THEN <<s.replyTo>> ELSE << >>,
             TextPart |-> s.bodyText,
             HTMLPart |-> s.bodyHTML,
             Attachments |->
                [i \in 1..Len(a1.attachments) |-> mailjetAttachment(a1.attachments[i], FALSE)],
             InlinedAttachments |->
                [i \in 1..Len(a2.attachments) |-> mailjetAttachment(a2.attachments[i], TRUE)]]
    IN  IF v # NoPanic THEN Panicked(v, << >>, s)
        ELSE IF st.err # NoError THEN Returned(st.err, st.io, s)
        ELSE IF st.totalSize > mailjetMaxFileSize
        THEN Returned(errorsNew("gomailer: max attachment size for mailjet is 15MB"), st.io, s)
        ELSE IF a1.err # NoError THEN Returned(a1.err, st.io \o a1.io, s)
        ELSE IF a2.err # NoError THEN Returned(a2.err, st.io \o a1.io \o a2.io, s)
        ELSE mailjet_processMailjetRequest(s, [Messages |-> <<params>>], net,
                                           st.io \o a1.io \o a2.io)

---------------------------------------------------------------------------
\* customerio

\* A customerio verifyParams without the body check.
customerio_verifyParams_NoBodyCheck(s) ==
    IF s.from.Email = "" THEN "gomailer: you must provide from"
    ELSE IF Len(s.toList) <= 0 THEN "gomailer: you must provide at least one receipent"
    ELSE IF Len(s.toList) + Len(s.ccList) + Len(s.bccList) > customerioMaxReceipents
    THEN "mailer: total number of receipents including to/cc/bcc can not be greater than 1000 for customerio"
    ELSE NoPanic

customerio_verifyParams(s) ==
    IF s.from.Email = "" THEN "gomailer: you must provide from"
    ELSE IF Len(s.toList) <= 0 THEN "gomailer: you must provide at least one receipent"
    ELSE IF Len(s.toList) + Len(s.ccList) + Len(s.bccList) > customerioMaxReceipents
    THEN "mailer: total number of receipents including to/cc/bcc can not be greater than 1000 for customerio"
    ELSE IF s.bodyText = "" /\ s.bodyHTML = "" THEN "gomailer: you must provide a Text or HTML body"
    ELSE NoPanic

\* files[a.FileName] = a.Content for every attachment in order: a later
\* attachment replaces an earlier one of the same FileName.
customerio_files(attachments) ==
    LET names == {attachments[i].FileName : i \in 1..Len(attachments)}
        lastOf(n) == CHOOSE i \in 1..Len(attachments) :
                        /\ attachments[i].FileName = n
                        /\ \A j \in (i + 1)..Len(attachments) : attachments[j].FileName # n
    IN  [n \in names |-> attachments[lastOf(n)].Content]

\* client.SendEmail of the go-customerio library, which Send calls once: it
\* posts the request with the API key as bearer token to the library's own
\* endpoint and gives an error for a failed exchange or a status other than
\* 200.
cio_SendEmail(apiKey, req, net, io0) ==
    LET httpReq == [method |-> "POST", url |-> <<"https://api.customer.io", "/v1/send/email">>,
                    auth |-> [Authorization |-> <<"Bearer ", apiKey>>],
                    contentType |-> "application/json",
                    body |-> req]
    IN  [io |-> Append(io0, Do(httpReq, [Timeout |-> 0, DialTimeout |-> 0])),
         err |-> IF net.kind = "error" THEN net.err
                 ELSE IF net.readErr # NoError THEN net.readErr
                 ELSE IF net.status # StatusOK
                 THEN [TransactionalError |-> net.status, body |-> net.body]
                 ELSE NoError]

\* The SendEmailRequest made of the receiver.  The cc list is put in BCC, and
\* the bcc list, when there is one, replaces it there.
customerio_req(c) ==
    [From |-> <<format(c.from)>>,
     To |-> lists(c.toList),
     Subject |-> c.subject,
     Identifiers |-> [id |-> "uuid"],
     BCC |-> LET bcc1 == IF Len(c.ccList) > 0 THEN lists(c.ccList) ELSE << >>
             IN  IF Len(c.bccList) > 0 THEN lists(c.bccList) ELSE bcc1,
     ReplyTo |-> IF c.replyTo.Email # "" THEN <<format(c.replyTo)>> ELSE << >>,
     PlaintextBody |-> c.bodyText,
     Body |-> c.bodyHTML,
     Attachments |-> customerio_files(c.attachments)]

\* if _, err := client.SendEmail(ctx, &req); err != nil { return err }
\* return nil
customerio_Sent(sent, c) == Returned(sent.err, sent.io, c)

\* Send from the attachment loops on: b is what they did, io0 the I/O before.
customerio_SendBuilt(b, net, io0) ==
    IF b.err # NoError THEN Returned(b.err, io0 \o b.io, b.s)
    ELSE customerio_Sent(
            cio_SendEmail(b.s.configs.APIKey, customerio_req(b.s), net, io0 \o b.io), b.s)

customerio_Send(s, disk, net) ==
    LET v == customerio_verifyParams(s)
        st == StatFiles(s.attachmentFiles, disk)
    IN  IF v # NoPanic THEN Panicked(v, << >>, s)
        ELSE IF st.err # NoError THEN Returned(st.err, st.io, s)
        ELSE IF st.totalSize > customerioMaxFileSize
        THEN Returned(errorsNew("gomailer: max attachment size for customerio is 30MB"), st.io, s)
        ELSE customerio_SendBuilt(BuildAttachments(s, disk), net, st.io)

\* Send of the adapter s is.
Send(s, fields, disk, net) ==
    CASE s.driver = MAILGUN -> mailgun_Send(s, fields, disk, net)
      [] s.driver = SENDGRID -> sendgrid_Send(s, disk, net)
      [] s.driver = POSTMARK -> postmark_Send(s, disk, net)
      [] s.driver = MAILJET -> mailjet_Send(s, disk, net)
      [] s.driver = CUSTOMERIO -> customerio_Send(s, disk, net)

---------------------------------------------------------------------------
\* History of the setters' arguments, reset by New: for To, Cc and Bcc every
\* argument in call order, for the other setters the argument of the last
\* call (the zero value when there was none).

NoArgs ==
    [From |-> ZeroAddress, To |-> << >>, Cc |-> << >>, Bcc |-> << >>,
     ReplyTo |-> ZeroAddress, Subject |-> "", BodyHTML |-> "", BodyText |-> ""]

Appending == {"To", "Cc", "Bcc"}

Record(op, arg) ==
    [args EXCEPT ![op] = IF op \in Appending THEN Append(@, arg) ELSE arg]

NoCall == [op |-> "none"]

\* The adapter's own AttachmentReader and AttachmentInlineReader; the mailgun
\* type has neither method.
AttachmentReader(s, file, r) ==
    CASE s.driver = SENDGRID -> sendgrid_AttachmentReader(s, file, r)
      [] s.driver = CUSTOMERIO -> customerio_AttachmentReader(s, file, r)
      [] s.driver = MAILJET -> mailjet_AttachmentReader(s, file, r)
      [] s.driver = POSTMARK -> postmark_AttachmentReader(s, file, r)

AttachmentInlineReader(s, file, r) ==
    CASE s.driver = SENDGRID -> sendgrid_AttachmentInlineReader(s, file, r)
      [] s.driver = CUSTOMERIO -> customerio_AttachmentInlineReader(s, file, r)
      [] s.driver = MAILJET -> mailjet_AttachmentInlineReader(s, file, r)
      [] s.driver = POSTMARK -> postmark_AttachmentInlineReader(s, file, r)

---------------------------------------------------------------------------
\* The inputs a Send is run against.

MaxFileSize(d) ==
    CASE d = MAILGUN -> mailgunMaxFileSize
      [] d = SENDGRID -> sendgridMaxFileSize
      [] d = POSTMARK -> postmarkMaxFileSize
      [] d = MAILJET -> mailjetMaxFileSize
      [] d = CUSTOMERIO -> customerioMaxFileSize

\* A file is missing, unreadable, small, or of a size at the ceiling of the
\* adapter that sends.
FileChoices(d) ==
    {Missing, File(1, FALSE), File(1, TRUE), File(MaxFileSize(d) - 1, TRUE),
     File(MaxFileSize(d), TRUE), File(MaxFileSize(d) + 1, TRUE)}

Named(s) ==
    {s.attachmentFiles[i] : i \in 1..Len(s.attachmentFiles)}
        \cup {s.attachmentInlineFiles[i] : i \in 1..Len(s.attachmentInlineFiles)}

\* The disks drawn for a Send: the files the message names vary, the others
\* are not there.
Disks(s) ==
    {disk \in [Paths -> FileChoices(s.driver)] :
        \A p \in Paths \ Named(s) : disk[p] = Missing}

\* range over the two keys of mailgun's files map gives them in either order.
FieldOrders(s) ==
    IF s.driver = MAILGUN /\ s.attachmentFiles # << >> /\ s.attachmentInlineFiles # << >>
    THEN {<<"attachment", "inline">>, <<"inline", "attachment">>}
    ELSE {<<"attachment", "inline">>}

Statuses == {StatusOK, StatusAccepted, 500}

NoAnswer == [kind |-> "none"]

Answers ==
    {DoError(TransportError)}
        \cup {Response(st, b, NoError) : st \in Statuses, b \in {"", "Forbidden"}}
        \cup {Response(st, "Forb", BodyReadError) : st \in Statuses}

Requests(io) == {i \in 1..Len(io) : io[i].ev = "http"}

FileAccesses(io) == {i \in 1..Len(io) : io[i].ev \in {"stat", "read", "open"}}

\* The network answers only a Send that asks it something, and the disk
\* shows only to a Send that looks at it.
AnswersTo(s, fields, disk) ==
    IF Requests(Send(s, fields, disk, DoError(TransportError)).io) = {}
    THEN {NoAnswer} ELSE Answers

NoDisk == [p \in Paths |-> Missing]

DisksFor(s) ==
    IF Send(s, <<"attachment", "inline">>, NoDisk, DoError(TransportError)).io = << >>
    THEN {NoDisk} ELSE Disks(s)

---------------------------------------------------------------------------

\* The size of the message s holds.
Parts(s) ==
    LET set(b) == IF b THEN 1 ELSE 0
    IN  set(s.from # ZeroAddress) + set(s.replyTo # ZeroAddress) + set(s.subject # "")
        + set(s.bodyHTML # "") + set(s.bodyText # "")
        + Len(s.toList) + Len(s.ccList) + Len(s.bccList)
        + Len(s.attachmentFiles) + Len(s.attachmentInlineFiles)
        + Cardinality(DOMAIN s.attachmentReaders)
        + Cardinality(DOMAIN s.attachmentInlineReaders)

Init ==
    /\ m = NoMailer
    /\ err = NoError
    /\ args = NoArgs
    /\ last = NoCall

\* m, err := New(d, c)
New(d, c) ==
    /\ m = NoMailer
    /\ m' = mailFactory(d, c).mailer
    /\ err' = mailFactory(d, c).err
    /\ args' = NoArgs
    /\ last' = [op |-> "New", d |-> d, c |-> c]

\* A builder call on a non-nil Mailer: the receiver is changed in place and
\* returned.
Builder(op, arg, after) ==
    /\ m # NoMailer
    /\ Parts(after) <= MaxParts
    /\ m' = after
    /\ args' = IF op \in DOMAIN args THEN Record(op, arg) ELSE args
    /\ last' = [op |-> "setter", self |-> (after.driver = m.driver)]
    /\ UNCHANGED err

CallFrom == \E a \in Addresses : Builder("From", a, From(m, a))
CallTo == \E a \in Addresses : Builder("To", a, To(m, a))
CallCc == \E a \in Addresses : Builder("Cc", a, Cc(m, a))
CallBcc == \E a \in Addresses : Builder("Bcc", a, Bcc(m, a))
CallReplyTo == \E a \in Addresses : Builder("ReplyTo", a, ReplyTo(m, a))
CallSubject == \E s \in Strings : Builder("Subject", s, Subject(m, s))
CallBodyHTML == \E s \in Strings : Builder("BodyHTML", s, BodyHTML(m, s))
CallBodyText == \E s \in Strings : Builder("BodyText", s, BodyText(m, s))
CallAttachmentFile ==
    \E f \in Paths : Builder("AttachmentFile", f, AttachmentFile(m, f))
CallAttachmentInlineFile ==
    \E f \in Paths : Builder("AttachmentInlineFile", f, AttachmentInlineFile(m, f))
CallAttachmentReader ==
    /\ m # NoMailer
    /\ m.driver # MAILGUN
    /\ \E f \in ReaderNames, r \in Readers :
          Builder("AttachmentReader", <<f, r>>, AttachmentReader(m, f, r))
CallAttachmentInlineReader ==
    /\ m # NoMailer
    /\ m.driver # MAILGUN
    /\ \E f \in ReaderNames, r \in Readers :
          Builder("AttachmentInlineReader", <<f, r>>, AttachmentInlineReader(m, f, r))

\* The Send that gave r is over: the receiver is as it left it.
Sending(disk, net, r) ==
    /\ m' = r.m
    /\ last' = [op |-> "Send", pre |-> m, disk |-> disk, net |-> net,
                outcome |-> r.outcome, value |-> r.value, io |-> r.io]

\* err := m.Send(), against the disk and the network answer drawn.  A panic
\* ends the call too; the program that recovers from it goes on with m.
CallSend ==
    /\ m # NoMailer
    /\ Len(m.attachments) < MaxResolved
    /\ \E disk \in DisksFor(m), fields \in FieldOrders(m) :
         \E net \in AnswersTo(m, fields, disk) :
            Sending(disk, net, Send(m, fields, disk, net))
    /\ UNCHANGED <<err, args>>

Next ==
    \/ \E d \in Drivers, c \in ConfigsChoices : New(d, c)
    \/ CallFrom
    \/ CallTo
    \/ CallCc
    \/ CallBcc
    \/ CallReplyTo
    \/ CallSubject
    \/ CallBodyHTML
    \/ CallBodyText
    \/ CallAttachmentFile
    \/ CallAttachmentInlineFile
    \/ CallAttachmentReader
    \/ CallAttachmentInlineReader
    \/ CallSend

Spec == Init /\ [][Next]_vars

---------------------------------------------------------------------------
\* Messages at the recipient ceilings.  The builder calls that make such a
\* message are the To, Cc and Bcc above, made up to a thousand times; here
\* the message starts as those calls leave it, and Send is called on it.

\* How far from a ceiling the recipient totals drawn are.
CeilingSlack == 1

MaxReceipents(d) ==
    CASE d = MAILGUN -> mailgunMaxReceipents
      [] d = SENDGRID -> sendgridMaxReceipents
      [] d = POSTMARK -> postmarkMaxReceipents
      [] d = MAILJET -> mailjetMaxReceipents
      [] d = CUSTOMERIO -> customerioMaxReceipents

Jane == address("Jane", "jane@example.com")

\* n calls of To (or Cc, or Bcc) with the same address.
Fill(n) == [i \in 1..n |-> Jane]

\* The sizes tried for a list that may take up to t recipients.
Shares(t) == {0, 1, 2, t \div 2, t - 2, t - 1, t} \cap (0..t)

\* The ways drawn to split t recipients over to, cc and bcc.
Splits(t) ==
    {<<q[1], q[2], t - q[1] - q[2]>> :
        q \in {q \in Shares(t) \X Shares(t) : q[1] + q[2] <= t}}

\* New(d, c), From, BodyText and the To, Cc and Bcc calls of a split.
Composed(d, c, sp) ==
    [NewMailer(d, c) EXCEPT !.from = Jane, !.bodyText = "text",
                            !.toList = Fill(sp[1]), !.ccList = Fill(sp[2]),
                            !.bccList = Fill(sp[3])]

InitCeiling ==
    \E d \in {MAILGUN, SENDGRID, POSTMARK, MAILJET, CUSTOMERIO} :
      \E t \in (MaxReceipents(d) - CeilingSlack)..(MaxReceipents(d) + CeilingSlack) :
        \E sp \in Splits(t) :
            /\ m = Composed(d, FullConfigs, sp)
            /\ err = NoError
            /\ args = [NoArgs EXCEPT !.From = Jane, !.BodyText = "text",
                                     !.To = Fill(sp[1]), !.Cc = Fill(sp[2]),
                                     !.Bcc = Fill(sp[3])]
            /\ last = [op |-> "setter", self |-> TRUE]

SpecCeiling == InitCeiling /\ [][CallSend]_vars

---------------------------------------------------------------------------
\* Messages with readers.  The message starts as New, From, To, BodyText and
\* at most one AttachmentFile leave it; AttachmentReader and
\* AttachmentInlineReader are then called any number of times, under two
\* names and with a stream larger than every ceiling among the readers, and
\* Send is called.  The history keeps the arguments of the last call of each
\* of the two.

StreamNames == {a_jpg, in_b_png}

\* A stream of one byte more than the largest ceiling.
LargeStream == [data |-> Unspelled("stream", sendgridMaxFileSize + 1), fails |-> FALSE]

Streams == Readers \cup {LargeStream}

NoReader == [none |-> TRUE]

InitReaders ==
    \E d \in {SENDGRID, POSTMARK, MAILJET, CUSTOMERIO} :
      \E files \in {<< >>, <<some_file_zip>>} :
        /\ m = [Composed(d, FullConfigs, <<1, 0, 0>>) EXCEPT !.attachmentFiles = files]
        /\ err = NoError
        /\ args = [NoArgs EXCEPT !.From = Jane, !.BodyText = "text", !.To = Fill(1)]
                    @@ [AttachmentReader |-> NoReader, AttachmentInlineReader |-> NoReader]
        /\ last = [op |-> "setter", self |-> TRUE]

\* A reader is registered: the receiver is changed in place and returned.
Register(op, arg, after) ==
    /\ m' = after
    /\ args' = Record(op, arg)
    /\ last' = [op |-> "setter", self |-> (after.driver = m.driver), before |-> m]
    /\ UNCHANGED err

RegisterReader ==
    \E f \in StreamNames, r \in Streams :
        Register("AttachmentReader", <<f, r>>, AttachmentReader(m, f, r))

RegisterInlineReader ==
    \E f \in StreamNames, r \in Streams :
        Register("AttachmentInlineReader", <<f, r>>, AttachmentInlineReader(m, f, r))

NextReaders ==
    \/ RegisterReader
    \/ RegisterInlineReader
    \/ CallSend

SpecReaders == InitReaders /\ [][NextReaders]_vars

---------------------------------------------------------------------------
\* The attachment functions alone, on a fresh attachment, with the bytes of
\* the file or of the stream spelled out.  A path and the bytes are drawn,
\* and ReadFromFile or ReadFromReader is called with them.

\* How many bytes a file or a stream drawn has at most.
MaxBytes == 4

ByteValues == {0, 104, 255}

ByteStrings == UNION {[1..n -> ByteValues] : n \in 0..MaxBytes}

README == <<"R", "E", "A", "D", "M", "E">>
v1_2_notes == <<"v", "1", ".", "2", "/", "n", "o", "t", "e", "s">>
tmp_c_jpg == <<"t", "m", "p", "/", "c", ".", "j", "p", "g">>

AttachmentPaths == Paths \cup StreamNames \cup {README, v1_2_notes, tmp_c_jpg}

\* The path and the bytes drawn.
InitAttachment ==
    /\ m = NoMailer
    /\ err = NoError
    /\ args = NoArgs
    /\ \E p \in AttachmentPaths, b \in ByteStrings :
          last = [op |-> "none", path |-> p, bytes |-> b]

\* a := attachment{}; err := a.ReadFromFile(path), on a file of the bytes
\* drawn
CallReadFromFile ==
    /\ last.op = "none"
    /\ last' = [op |-> "ReadFromFile", path |-> last.path, bytes |-> last.bytes,
                a |-> ReadFromFile(last.path, Spelled(last.bytes))]
    /\ UNCHANGED <<m, err, args>>

\* a := attachment{}; err := a.ReadFromReader(f, readerInfo{r: r}), on a
\* reader that gives the bytes drawn
CallReadFromReader ==
    /\ last.op = "none"
    /\ last' = [op |-> "ReadFromReader", path |-> last.path, bytes |-> last.bytes,
                a |-> ReadFromReader(last.path,
                                     [size |-> 0,
                                      r |-> [data |-> Spelled(last.bytes),
                                             fails |-> FALSE]])]
    /\ UNCHANGED <<m, err, args>>

NextAttachment ==
    \/ CallReadFromFile
    \/ CallReadFromReader

SpecAttachment == InitAttachment /\ [][NextAttachment]_vars

---------------------------------------------------------------------------
\* Send called again.  The message starts as New, From, To, BodyText,
\* AttachmentFile and at most one AttachmentInlineFile leave it; Send is
\* called, and called again with the disk as it was and no builder call in
\* between.

\* How many resolved attachments an adapter holds at most when Send is
\* called again.
MaxResent == 3

InitResend ==
    \E d \in {MAILGUN, SENDGRID, POSTMARK, MAILJET, CUSTOMERIO} :
      \E inline \in {<< >>, <<some_file_zip>>} :
        /\ m = [Composed(d, FullConfigs, <<1, 0, 0>>)
                  EXCEPT !.attachmentFiles = <<a_jpg>>, !.attachmentInlineFiles = inline]
        /\ err = NoError
        /\ args = [NoArgs EXCEPT !.From = Jane, !.BodyText = "text", !.To = Fill(1)]
        /\ last = [op |-> "setter", self |-> TRUE]

\* err = m.Send() once more, against the disk of the Send before.
CallSendAgain ==
    /\ last.op = "Send"
    /\ Len(m.attachments) < MaxResent
    /\ \E fields \in FieldOrders(m) :
         \E net \in AnswersTo(m, fields, last.disk) :
            Sending(last.disk, net, Send(m, fields, last.disk, net))
    /\ UNCHANGED <<err, args>>

NextResend ==
    \/ CallSend
    \/ CallSendAgain

SpecResend == InitResend /\ [][NextResend]_vars

---------------------------------------------------------------------------
\* Properties.

Sent == last.op = "Send"

\* More addresses than the builder calls of the model are made with.
OtherAddresses ==
    {address("Tom", "tom@example.com"), address("", "jerry@example.com"),
     address("Jerry", "")}

\* The message as it was when Send was called.
pre == last.pre

Recipients(s) == Len(s.toList) + Len(s.ccList) + Len(s.bccList)

HasBody(s) == s.bodyText # "" \/ s.bodyHTML # ""

\* The panics of the five verifyParams.
ValidationPanics ==
    {"gomailer: you must provide from",
     "gomailer: you must provide at least one receipent",
     "mailer: total number of receipents including to/cc/bcc can not be greater than 1000 for mailgun",
     "mailer: total number of receipents including to/cc/bcc can not be greater than 1000 for sendgrid",
     "mailer: total number of receipents including to/cc/bcc can not be greater than 50 for postmark",
     "mailer: total number of receipents including to/cc/bcc can not be greater than 50 for mailjet",
     "mailer: total number of receipents including to/cc/bcc can not be greater than 1000 for customerio",
     "gomailer: you must provide a Text or HTML body",
     "gomailer: for postmarkapp you must provide AccountToken or ServerToken in config",
     "gomailer: for mailjetapp you must provide PrivateKey and PublicKey in config"}

FailedValidation ==
    /\ last.outcome = "panic"
    /\ last.value.panic \in ValidationPanics
    /\ last.io = << >>

\* C1: whatever the provider and the builder calls made, a Send makes a
\* network request only when the sender email is set, the to list is not
\* empty and one of the two bodies is not empty; when one of the three
\* fails, Send panics in validation, having made no request and touched no
\* file.
C1_ValidationBeforeIO ==
    Sent =>
        /\ Requests(last.io) # {} =>
              pre.from.Email # "" /\ Len(pre.toList) > 0 /\ HasBody(pre)
        /\ (pre.from.Email = "" \/ Len(pre.toList) = 0 \/ ~HasBody(pre)) =>
              FailedValidation

\* A message with a recipient, a body and a file, but no sender, was sent.
C1_Witness ==
    /\ Sent
    /\ pre.from.Email = "" /\ Len(pre.toList) > 0 /\ HasBody(pre)
    /\ pre.attachmentFiles # << >>
    /\ FailedValidation

\* C6: To, Cc and Bcc each append to their own list: every list is the
\* sequence of the arguments its setter was called with, in call order,
\* duplicates kept.
C6_RecipientListsAreCallHistory ==
    m # NoMailer =>
        /\ m.toList = args.To
        /\ m.ccList = args.Cc
        /\ m.bccList = args.Bcc

\* To was called twice with the same address and Cc with another one.
C6_Witness ==
    /\ m # NoMailer
    /\ Len(m.toList) = 2 /\ m.toList[1] = m.toList[2]
    /\ Len(m.ccList) = 1 /\ m.ccList[1] # m.toList[1]
    /\ m.toList = args.To /\ m.ccList = args.Cc

\* C7: From, ReplyTo, Subject, BodyHTML and BodyText overwrite: each field
\* holds the argument of the last call of its setter, a call after another
\* leaves nothing of the first, and the same call made twice is the call
\* made once.
C7_SettersOverwrite ==
    m # NoMailer =>
        /\ m.from = args.From /\ m.replyTo = args.ReplyTo
        /\ m.subject = args.Subject
        /\ m.bodyHTML = args.BodyHTML /\ m.bodyText = args.BodyText
        /\ \A a, b \in Addresses \cup OtherAddresses :
              /\ From(m, a).from = a /\ ReplyTo(m, a).replyTo = a
              /\ From(From(m, a), b) = From(m, b)
              /\ ReplyTo(ReplyTo(m, a), b) = ReplyTo(m, b)
        /\ \A x, y \in Strings :
              /\ Subject(Subject(m, x), y) = Subject(m, y)
              /\ BodyHTML(BodyHTML(m, x), y) = BodyHTML(m, y)
              /\ BodyText(BodyText(m, x), y) = BodyText(m, y)

\* From, ReplyTo, Subject and BodyText have been called, so that a further
\* call of each overwrites a value that is set.
C7_Witness ==
    /\ m # NoMailer
    /\ last.op = "setter"
    /\ args.From # ZeroAddress /\ m.from = args.From
    /\ args.ReplyTo # ZeroAddress /\ m.replyTo = args.ReplyTo
    /\ args.Subject # "" /\ m.subject = args.Subject
    /\ args.BodyText # "" /\ m.bodyText = args.BodyText

\* C8: New gives the adapter of the driver, holding the Configs it was
\* given, and no error for the five drivers; for any other driver value it
\* gives a nil Mailer and the unsupported-driver error.
C8_NewByDriver ==
    last.op = "New" =>
        IF last.d \in {MAILGUN, SENDGRID, POSTMARK, MAILJET, CUSTOMERIO}
        THEN /\ m # NoMailer /\ err = NoError
             /\ m.driver = last.d /\ m.configs = last.c
             /\ m = NewMailer(last.d, last.c)
        ELSE /\ m = NoMailer
             /\ err = errorsNew("gomailer: unsupported mail driver")

\* New was called with the zero driver.
C8_Witness ==
    /\ last.op = "New" /\ last.d = 0
    /\ m = NoMailer /\ err # NoError

\* C9: credentials are looked at by Send only.  New gives no error for a
\* driver it knows, whatever the Configs; a postmark Send with neither
\* token, and a mailjet Send with a key missing, panic in validation before
\* any I/O, whatever the message.
C9_CredentialsCheckedAtSend ==
    /\ (last.op = "New" /\ last.d \in {MAILGUN, SENDGRID, POSTMARK, MAILJET, CUSTOMERIO})
          => err = NoError /\ m # NoMailer
    /\ (Sent /\ pre.driver = POSTMARK
             /\ pre.configs.AccountToken = "" /\ pre.configs.ServerToken = "")
          => /\ FailedValidation
             /\ last.value.panic =
                  "gomailer: for postmarkapp you must provide AccountToken or ServerToken in config"
    /\ (Sent /\ pre.driver = MAILJET
             /\ (pre.configs.PublicKey = "" \/ pre.configs.PrivateKey = ""))
          => /\ FailedValidation
             /\ last.value.panic =
                  "gomailer: for mailjetapp you must provide PrivateKey and PublicKey in config"

\* A complete message with a file was sent by a mailjet adapter that has its
\* public key only.
C9_Witness ==
    /\ Sent /\ pre.driver = MAILJET
    /\ pre.configs.PublicKey # "" /\ pre.configs.PrivateKey = ""
    /\ pre.from.Email # "" /\ Len(pre.toList) > 0 /\ HasBody(pre)
    /\ pre.attachmentFiles # << >>
    /\ FailedValidation

Dispatched == Requests(last.io) # {}

\* What the validation of section 4.2 asks of a message and its Configs.
Validated(s) ==
    /\ s.from.Email # "" /\ Len(s.toList) > 0 /\ HasBody(s)
    /\ Recipients(s) <= (IF s.driver \in {POSTMARK, MAILJET} THEN 50 ELSE 1000)
    /\ s.driver = POSTMARK => (s.configs.AccountToken # "" \/ s.configs.ServerToken # "")
    /\ s.driver = MAILJET => (s.configs.PublicKey # "" /\ s.configs.PrivateKey # "")
    /\ s.driver = MAILGUN => s.configs.Domain # ""

\* The endpoint the adapter is configured with parses as a URL (customerio's
\* client has its own).
WellFormedURL(s) == s.driver = CUSTOMERIO \/ s.configs.BaseURL # MalformedURL

\* Every file and reader of the message can be read on the disk.
Readable(s, disk) ==
    /\ \A p \in Named(s) : disk[p].exists /\ disk[p].readable
    /\ \A f \in DOMAIN s.attachmentReaders : ~s.attachmentReaders[f].r.fails
    /\ \A f \in DOMAIN s.attachmentInlineReaders : ~s.attachmentInlineReaders[f].r.fails

C2_Panics ==
    {"mailer: total number of receipents including to/cc/bcc can not be greater than 1000 for mailgun",
     "mailer: total number of receipents including to/cc/bcc can not be greater than 1000 for sendgrid",
     "mailer: total number of receipents including to/cc/bcc can not be greater than 50 for postmark",
     "mailer: total number of receipents including to/cc/bcc can not be greater than 50 for mailjet",
     "mailer: total number of receipents including to/cc/bcc can not be greater than 1000 for customerio"}

C2_Ceiling(d) == IF d \in {POSTMARK, MAILJET} THEN 50 ELSE 1000

\* C2: the recipient ceilings are exact: with a sender, a body, a to list
\* that is not empty and the credentials set, Send does not panic when the
\* to, cc and bcc lists hold together as many addresses as the provider's
\* ceiling (1000 for mailgun, sendgrid and customerio, 50 for postmark and
\* mailjet) or fewer, and it panics in validation, before any file or
\* network access, when they hold one more.
C2_RecipientCeilingExact ==
    (Sent /\ pre.from.Email # "" /\ Len(pre.toList) > 0 /\ HasBody(pre)
          /\ pre.configs = FullConfigs) =>
        /\ Recipients(pre) <= C2_Ceiling(pre.driver) =>
              last.outcome = "return" /\ Dispatched
        /\ Recipients(pre) > C2_Ceiling(pre.driver) =>
              FailedValidation /\ last.value.panic \in C2_Panics

\* postmark was sent a message of 50 recipients spread over the three lists
\* and the provider took it.
C2_Witness ==
    /\ Sent /\ pre.driver = POSTMARK
    /\ Recipients(pre) = 50
    /\ Len(pre.toList) > 0 /\ Len(pre.ccList) > 0 /\ Len(pre.bccList) > 0
    /\ Dispatched /\ last.value = NoError

\* The bytes of the files added with AttachmentFile.
FileBytes(s, disk) == SumSizes(s.attachmentFiles, Len(s.attachmentFiles), disk)

C3_Ceiling(d) ==
    CASE d = MAILGUN -> 25000000
      [] d = MAILJET -> 15000000
      [] d \in {SENDGRID, CUSTOMERIO} -> 30000000
      [] d = POSTMARK -> 5000000

\* C3: the attachment size ceilings are exact for every provider: a
\* validated message whose AttachmentFile files total the ceiling is
\* dispatched, and one whose files total one byte more makes Send return an
\* error without a network request.
C3_SizeCeilingExact ==
    (Sent /\ Validated(pre) /\ WellFormedURL(pre) /\ Readable(pre, last.disk)) =>
        /\ FileBytes(pre, last.disk) = C3_Ceiling(pre.driver) => Dispatched
        /\ FileBytes(pre, last.disk) = C3_Ceiling(pre.driver) + 1 =>
              /\ last.outcome = "return" /\ last.value # NoError
              /\ ~Dispatched

\* The Send got as far as reading (or opening, for the multipart form) every
\* file the message names.
AttachmentsRead ==
    \A p \in Named(pre) :
        \E i \in 1..Len(last.io) :
            last.io[i].ev \in {"read", "open"} /\ last.io[i].path = p

\* C4: once validation has passed and the attachments are read, a Send makes
\* one HTTP request: one when it returns nil, one whenever the endpoint's URL
\* parses, and never more than one, whatever the answer.
C4_OneRequest ==
    Sent =>
        /\ Cardinality(Requests(last.io)) <= 1
        /\ (last.outcome = "return" /\ last.value = NoError) =>
              Cardinality(Requests(last.io)) = 1
        /\ (Validated(pre) /\ WellFormedURL(pre) /\ Readable(pre, last.disk)
              /\ AttachmentsRead) =>
              Cardinality(Requests(last.io)) = 1

\* A message with a file was sent and the provider answered with a failure.
C4_Witness ==
    /\ Sent /\ Validated(pre) /\ Readable(pre, last.disk)
    /\ pre.attachmentFiles # << >> /\ AttachmentsRead
    /\ last.net.kind = "response" /\ last.net.status = 500
    /\ last.value # NoError
    /\ Cardinality(Requests(last.io)) = 1

C5_Success(d) == IF d = SENDGRID THEN 202 ELSE 200

C5_Providers == {MAILGUN, SENDGRID, POSTMARK, MAILJET}

\* C5 as claimed: Send returns nil exactly when the provider answers with
\* its success status; for another status it returns an error whose message
\* is the body text, and a transport error is returned as it is.
C5_NilExactlyOnSuccessStatus ==
    (Sent /\ pre.driver \in C5_Providers) =>
        /\ Dispatched =>
              IF last.net.kind = "error" THEN last.value = last.net.err
              ELSE IF last.net.status = C5_Success(pre.driver) THEN last.value = NoError
              ELSE last.value = errorsNew(last.net.body)
        /\ (last.outcome = "return" /\ last.value = NoError) =>
              /\ Dispatched /\ last.net.kind = "response"
              /\ last.net.status = C5_Success(pre.driver)

\* C5, amended: as claimed when the response body is read without error and
\* for the adapters that read it only to make the error message (they use
\* the text read so far); mailgun reads the body of every response and
\* returns a failure to read it as it is, on the success status too.
C5_NilOnSuccessStatusAndBodyRead ==
    (Sent /\ pre.driver \in C5_Providers) =>
        /\ Dispatched =>
              IF last.net.kind = "error" THEN last.value = last.net.err
              ELSE IF pre.driver = MAILGUN /\ last.net.readErr # NoError
              THEN last.value = last.net.readErr
              ELSE IF last.net.status = C5_Success(pre.driver) THEN last.value = NoError
              ELSE last.value = errorsNew(last.net.body)
        /\ (last.outcome = "return" /\ last.value = NoError) =>
              /\ Dispatched /\ last.net.kind = "response"
              /\ last.net.status = C5_Success(pre.driver)

\* sendgrid got status 200 and body "Forbidden", and Send returned that text.
C5_Witness ==
    /\ Sent /\ pre.driver = SENDGRID /\ Dispatched
    /\ last.net.kind = "response" /\ last.net.status = 200
    /\ last.net.body = "Forbidden"
    /\ last.value = errorsNew("Forbidden")

\* C10: mailgun's check of the domain belongs to the validation that Send
\* starts with: with an empty Domain, Send panics before a file is stat'ed
\* or opened and before any request.
C10_DomainCheckedFirst ==
    (Sent /\ pre.driver = MAILGUN /\ pre.configs.Domain = "") =>
        /\ last.outcome = "panic"
        /\ FileAccesses(last.io) = {}
        /\ ~Dispatched

C11_DefaultBase(d) ==
    CASE d = MAILGUN -> "https://api.mailgun.net/v3"
      [] d = SENDGRID -> "https://api.sendgrid.com/v3"
      [] d = POSTMARK -> "https://api.postmarkapp.com"
      [] d = MAILJET -> "https://api.mailjet.com/v3.1"
      [] d = CUSTOMERIO -> "https://api.customer.io"

\* The endpoint of the adapter s as the specification derives it.
C11_Endpoint(s) ==
    LET base == IF s.configs.BaseURL # "" THEN s.configs.BaseURL
                ELSE C11_DefaultBase(s.driver)
    IN  CASE s.driver = MAILGUN -> <<base, "/", s.configs.Domain, "/messages">>
          [] s.driver = SENDGRID -> <<base, "/mail/send">>
          [] s.driver = POSTMARK -> <<base, "/email">>
          [] s.driver = MAILJET -> <<base, "/send">>
          [] s.driver = CUSTOMERIO -> <<base, "/v1/send/email">>

\* C11: every adapter, customerio included, sends its request to the
\* endpoint made of Configs.BaseURL when it is not empty and of the
\* provider's default base URL when it is.
C11_EndpointFromBaseURL ==
    Sent => \A i \in Requests(last.io) : last.io[i].req.url = C11_Endpoint(pre)

\* C12: a failed validation (sender, to list, recipient count, body,
\* postmark and mailjet credentials, mailgun domain) makes Send panic and is
\* never what Send returns: a Send that returns an error has passed
\* validation.
C12_ValidationFailuresPanic ==
    Sent =>
        /\ ~Validated(pre) => last.outcome = "panic"
        /\ (last.outcome = "return" /\ last.value # NoError) => Validated(pre)

\* The message passes verifyParams of its adapter.
Verified(s) ==
    /\ s.from.Email # "" /\ Len(s.toList) > 0 /\ HasBody(s)
    /\ Recipients(s) <= (IF s.driver \in {POSTMARK, MAILJET} THEN 50 ELSE 1000)
    /\ s.driver = POSTMARK => (s.configs.AccountToken # "" \/ s.configs.ServerToken # "")
    /\ s.driver = MAILJET => (s.configs.PublicKey # "" /\ s.configs.PrivateKey # "")

\* A file the message names is missing or cannot be read.
SomeFileUnreadable(s, disk) ==
    \E p \in Named(s) : ~(disk[p].exists /\ disk[p].readable)

\* C13: when a message that passes validation names, with AttachmentFile or
\* AttachmentInlineFile, a file that cannot be read, Send returns an error
\* (it does not panic) and makes no request.
C13_UnreadableFileIsReturned ==
    (Sent /\ Verified(pre) /\ SomeFileUnreadable(pre, last.disk)) =>
        /\ last.outcome = "return" /\ last.value # NoError
        /\ ~Dispatched

\* A postmark message names an inline file that is there but cannot be
\* read; Send returned the error of opening it.
C13_Witness ==
    /\ Sent /\ pre.driver = POSTMARK /\ Verified(pre)
    /\ pre.attachmentInlineFiles # << >>
    /\ last.disk[pre.attachmentInlineFiles[1]].exists
    /\ ~last.disk[pre.attachmentInlineFiles[1]].readable
    /\ last.value = PathError("open", pre.attachmentInlineFiles[1])

\* The attachments a request carries, each by its name and its content.
Carried(d, req) ==
    CASE d = SENDGRID ->
            {[name |-> req.body.attachments[i].FileName,
              content |-> req.body.attachments[i].Content] :
                i \in 1..Len(req.body.attachments)}
      [] d = POSTMARK ->
            {[name |-> req.body.Attachments[i].Name,
              content |-> req.body.Attachments[i].Content] :
                i \in 1..Len(req.body.Attachments)}
      [] d = MAILJET ->
            {[name |-> req.body.Messages[1].Attachments[i].Name,
              content |-> req.body.Messages[1].Attachments[i].Content] :
                i \in 1..Len(req.body.Messages[1].Attachments)}
            \cup {[name |-> req.body.Messages[1].InlinedAttachments[i].Name,
                   content |-> req.body.Messages[1].InlinedAttachments[i].Content] :
                     i \in 1..Len(req.body.Messages[1].InlinedAttachments)}
      [] d = CUSTOMERIO ->
            {[name |-> n, content |-> req.body.Attachments[n]] :
                n \in DOMAIN req.body.Attachments}

\* The attachment a registration <<name, r>> stands for is in a request sent.
CarriedReader(reg) ==
    \E i \in Requests(last.io) :
        [name |-> Base(reg[1]), content |-> EncodeToString(reg[2].data)]
            \in Carried(pre.driver, last.io[i].req)

Succeeded == Sent /\ last.outcome = "return" /\ last.value = NoError

\* C14: for every adapter, a reader registered with AttachmentReader or
\* AttachmentInlineReader is a source of a following successful Send: the
\* request carries an attachment named by the final path segment of the name
\* whose content is the base64 text of the reader's bytes.
C14_RegisteredReaderIsSent ==
    Succeeded =>
        \A op \in {"AttachmentReader", "AttachmentInlineReader"} :
            (args[op] # NoReader /\ ~args[op][2].fails) => CarriedReader(args[op])

\* The reader a mapping holds for a registration: the one registered, as it
\* is or read to its end.
Held(mapping, reg) ==
    IF reg = NoReader THEN DOMAIN mapping = {}
    ELSE /\ DOMAIN mapping = {reg[1]}
         /\ mapping[reg[1]].r \in {reg[2], [reg[2] EXCEPT !.data = Spelled(<< >>)]}

\* C15: for SendGrid and Customer.io, after any sequence of AttachmentReader
\* calls the reader mapping holds one entry, that of the last call, and the
\* same holds of AttachmentInlineReader and its mapping, each whatever was
\* registered with the other.
C15_LastReaderOnly ==
    m.driver \in {SENDGRID, CUSTOMERIO} =>
        /\ Held(m.attachmentReaders, args.AttachmentReader)
        /\ Held(m.attachmentInlineReaders, args.AttachmentInlineReader)

\* A reader was registered under one name over a reader of the other name,
\* with an inline reader in place.
C15_Witness ==
    /\ m.driver = CUSTOMERIO
    /\ last.op = "setter" /\ "before" \in DOMAIN last
    /\ DOMAIN last.before.attachmentReaders = {a_jpg}
    /\ DOMAIN m.attachmentReaders = {in_b_png}
    /\ DOMAIN m.attachmentInlineReaders = {a_jpg}
    /\ m.attachmentInlineReaders = last.before.attachmentInlineReaders

\* The size errors of SendGrid and Customer.io.
C16_SizeErrors ==
    {errorsNew("gomailer: max attachment size for sendgrid is 30MB"),
     errorsNew("gomailer: max attachment size for customerio is 30MB")}

\* The readers a message holds, as registrations.
Registered(s) ==
    {<<f, s.attachmentReaders[f].r>> : f \in DOMAIN s.attachmentReaders}
        \cup {<<f, s.attachmentInlineReaders[f].r>> : f \in DOMAIN s.attachmentInlineReaders}

\* C16: for SendGrid and Customer.io the size check counts the files only: a
\* Send of a message with a reader, of whatever size, returns the size error
\* only when the files exceed the ceiling, and when files and readers can be
\* read and the files are within the ceiling the request is dispatched with
\* the reader's attachment.
C16_ReadersNotCounted ==
    (Sent /\ pre.driver \in {SENDGRID, CUSTOMERIO} /\ Registered(pre) # {}) =>
        /\ last.value \in C16_SizeErrors =>
              FileBytes(pre, last.disk) > MaxFileSize(pre.driver)
        /\ (Readable(pre, last.disk)
              /\ FileBytes(pre, last.disk) <= MaxFileSize(pre.driver)) =>
              /\ Dispatched
              /\ \A reg \in Registered(pre) : CarriedReader(reg)

\* base64.StdEncoding.DecodeString, strict: four characters give three
\* bytes, padding is taken in the last group only, anything else is corrupt.
Corrupt == <<-1>>

DecodeGroup(q, final) ==
    LET ok(c) == \E i \in 1..64 : encodeStd[i] = c
        v(c) == (CHOOSE i \in 1..64 : encodeStd[i] = c) - 1
    IN  IF ok(q[1]) /\ ok(q[2]) /\ ok(q[3]) /\ ok(q[4]) THEN
            <<v(q[1]) * 4 + (v(q[2]) \div 16),
              (v(q[2]) % 16) * 16 + (v(q[3]) \div 4),
              (v(q[3]) % 4) * 64 + v(q[4])>>
        ELSE IF final /\ ok(q[1]) /\ ok(q[2]) /\ ok(q[3]) /\ q[4] = "=" THEN
            <<v(q[1]) * 4 + (v(q[2]) \div 16), (v(q[2]) % 16) * 16 + (v(q[3]) \div 4)>>
        ELSE IF final /\ ok(q[1]) /\ ok(q[2]) /\ q[3] = "=" /\ q[4] = "=" THEN
            <<v(q[1]) * 4 + (v(q[2]) \div 16)>>
        ELSE Corrupt

RECURSIVE DecodeFrom(_, _)
DecodeFrom(text, done) ==
    IF Len(text) = 0 THEN done
    ELSE IF Len(text) < 4 THEN Corrupt
    ELSE IF DecodeGroup(SubSeq(text, 1, 4), Len(text) = 4) = Corrupt THEN Corrupt
    ELSE DecodeFrom(SubSeq(text, 5, Len(text)),
                    done \o DecodeGroup(SubSeq(text, 1, 4), Len(text) = 4))

DecodeString(text) == DecodeFrom(text, << >>)

\* f is the final segment of the path p: it has no slash, and p is f or ends
\* with a slash and f.
FinalSegment(p, f) ==
    /\ Len(f) > 0 /\ Len(f) <= Len(p)
    /\ \A i \in 1..Len(f) : f[i] # "/"
    /\ SubSeq(p, Len(p) - Len(f) + 1, Len(p)) = f
    /\ Len(f) < Len(p) => p[Len(p) - Len(f)] = "/"

\* e is the extension of the path p: empty when the final segment has no dot,
\* otherwise what p ends with from the last dot of that segment on.
ExtensionOf(p, e) ==
    \E f \in {SubSeq(p, k, Len(p)) : k \in 1..Len(p)} :
        /\ FinalSegment(p, f)
        /\ IF \A i \in 1..Len(f) : f[i] # "." THEN e = << >>
           ELSE /\ Len(e) > 0 /\ Len(e) <= Len(f)
                /\ SubSeq(f, Len(f) - Len(e) + 1, Len(f)) = e
                /\ e[1] = "." /\ \A i \in 2..Len(e) : e[i] # "."

SameExtension(p, q) ==
    \E e \in {SubSeq(p, k, Len(p)) : k \in 1..(Len(p) + 1)} :
        ExtensionOf(p, e) /\ ExtensionOf(q, e)

\* C17: the attachment round trip: ReadFromFile gives a Content whose
\* base64 decoding is the file's bytes, a FileName that is the final segment
\* of the path, a ContentID equal to the FileName and a Type that paths of
\* the same extension share whatever the bytes; ReadFromReader gives the
\* same of the stream's bytes and sets Size to their number.
C17_AttachmentRoundTrip ==
    last.op \in {"ReadFromFile", "ReadFromReader"} =>
        /\ DecodeString(last.a.Content.text) = last.bytes
        /\ FinalSegment(last.path, last.a.FileName)
        /\ last.a.ContentID = last.a.FileName
        /\ \A q \in AttachmentPaths :
              SameExtension(last.path, q) =>
                  /\ ReadFromFile(q, Spelled(<<0>>)).Type = last.a.Type
                  /\ ReadFromReader(q, [size |-> 0, r |-> [data |-> Spelled(<<0>>),
                                                           fails |-> FALSE]]).Type
                        = last.a.Type
        /\ last.op = "ReadFromReader" => last.a.Size = Len(last.bytes)

\* A stream of four bytes was read under a name with a directory: its text
\* ends with padding and its Type is that of the extension.
C17_Witness ==
    /\ last.op = "ReadFromReader"
    /\ last.path = in_b_png
    /\ last.bytes = <<104, 255, 0, 104>>
    /\ last.a.Size = 4
    /\ last.a.Type = "image/png"
    /\ last.a.Content.text[Len(last.a.Content.text)] = "="

\* The credentials a request of the driver d carries are those of the
\* Configs c.
C18_Credentials(d, c, req) ==
    CASE d = MAILGUN -> req.auth = [basic |-> <<"api", c.APIKey>>]
      [] d = SENDGRID -> req.auth = [Authorization |-> <<"Bearer ", c.APIKey>>]
      [] d = POSTMARK ->
            /\ req.auth.headers # {}
            /\ req.auth.headers \subseteq
                  {<<"X-Postmark-Account-Token", c.AccountToken>>,
                   <<"X-Postmark-Server-Token", c.ServerToken>>}
      [] d = MAILJET -> req.auth = [basic |-> <<c.PublicKey, c.PrivateKey>>]
      [] d = CUSTOMERIO -> TRUE

\* C18: every request an adapter dispatches carries the provider's
\* credentials: mailgun Basic "api" and the API key, sendgrid the header
\* Authorization "Bearer <APIKey>", postmark one at least of its two token
\* headers, mailjet Basic public key and private key.
C18_RequestsCarryCredentials ==
    Sent =>
        \A i \in Requests(last.io) :
            C18_Credentials(pre.driver, pre.configs, last.io[i].req)

\* C19: the timeout of the HTTP client a Send makes its request with is 60
\* seconds when Configs.RequestTimeout is zero and Configs.RequestTimeout
\* otherwise, for the adapters that make the request themselves (customerio
\* hands it to its provider's client).
C19_ClientTimeout ==
    (Sent /\ pre.driver # CUSTOMERIO) =>
        \A i \in Requests(last.io) :
            last.io[i].client.Timeout =
                IF pre.configs.RequestTimeout = 0 THEN 60 ELSE pre.configs.RequestTimeout

\* A postmark adapter made with a RequestTimeout of 30 seconds sent its
\* request.
C19_Witness ==
    /\ Sent /\ pre.driver = POSTMARK /\ pre.configs.RequestTimeout = 30
    /\ \E i \in Requests(last.io) : last.io[i].client.Timeout = 30

\* The fields of the adapter that a step changes.
Changed == {f \in DOMAIN m : m[f] # m'[f]}

\* The step is a call that returns its receiver without an error and changes
\* at most the field named.
Only(field) ==
    /\ DOMAIN m' = DOMAIN m
    /\ Changed \subseteq {field}
    /\ last'.op = "setter" /\ last'.self
    /\ err' = err

C21_Written(d, list) == IF d \in {SENDGRID, MAILJET} THEN list ELSE lists(list)

\* The cc and the bcc field of a request; the customerio request has no cc
\* field.
C21_Cc(d, req) ==
    CASE d = MAILGUN -> req.fields.cc
      [] d = SENDGRID -> req.body.personalizations[1].cc
      [] d = POSTMARK -> req.body.Cc
      [] d = MAILJET -> req.body.Messages[1].Cc
      [] d = CUSTOMERIO -> << >>

C21_Bcc(d, req) ==
    CASE d = MAILGUN -> req.fields.bcc
      [] d = SENDGRID -> req.body.personalizations[1].bcc
      [] d = POSTMARK -> req.body.Bcc
      [] d = MAILJET -> req.body.Messages[1].Bcc
      [] d = CUSTOMERIO -> req.body.BCC

\* C21: every adapter keeps the routing of the recipients: in a request sent
\* the cc field holds the addresses added with Cc, in call order, and the
\* bcc field those added with Bcc, so that no Cc address is in bcc and none
\* is lost.
C21_RoutingPreserved ==
    Sent =>
        \A i \in Requests(last.io) :
            /\ C21_Cc(pre.driver, last.io[i].req) = C21_Written(pre.driver, args.Cc)
            /\ C21_Bcc(pre.driver, last.io[i].req) = C21_Written(pre.driver, args.Bcc)

\* The attachments of a request, as the adapter's body holds them; for
\* mailgun the form files whatever their order in the body.
C22_Attachments(d, req) ==
    CASE d = MAILGUN -> {req.files[i] : i \in 1..Len(req.files)}
      [] d = SENDGRID -> req.body.attachments
      [] d = POSTMARK -> req.body.Attachments
      [] d = MAILJET -> <<req.body.Messages[1].Attachments,
                          req.body.Messages[1].InlinedAttachments>>
      [] d = CUSTOMERIO -> req.body.Attachments

\* The request of a Send that made one.
C22_Request(l) == l.io[CHOOSE i \in Requests(l.io) : TRUE].req

\* C22: Send does not change what the next Send transmits: for every
\* adapter, a Send that follows a Send, with no builder call in between and
\* the same files on disk, makes a request with the same attachments as the
\* first; what the first resolved is not carried into the second.
C22_SendAgainSendsTheSame ==
    [][(/\ last.op = "Send" /\ last'.op = "Send"
        /\ last'.disk = last.disk
        /\ Requests(last.io) # {} /\ Requests(last'.io) # {})
          => C22_Attachments(m.driver, C22_Request(last'))
                = C22_Attachments(m.driver, C22_Request(last))]_vars

\* The size errors of the five adapters.
SizeErrors ==
    {errorsNew("gomailer: max attachment size for mailgun is 25MB"),
     errorsNew("gomailer: max attachment size for sendgrid is 30MB"),
     errorsNew("gomailer: max attachment size for postmark is 5MB"),
     errorsNew("gomailer: max attachment size for mailjet is 15MB"),
     errorsNew("gomailer: max attachment size for customerio is 30MB")}

\* The bytes of the files added with AttachmentInlineFile.
InlineBytes(s, disk) ==
    SumSizes(s.attachmentInlineFiles, Len(s.attachmentInlineFiles), disk)

\* C23: the files added with AttachmentInlineFile count toward the size
\* ceiling: for every adapter, a Send of a message whose files, inline ones
\* included, are there and together larger than the provider's ceiling
\* returns the size error and makes no request.
C23_InlineFilesCounted ==
    (Sent /\ Verified(pre)
          /\ (\A p \in Named(pre) : last.disk[p].exists /\ last.disk[p].readable)
          /\ FileBytes(pre, last.disk) + InlineBytes(pre, last.disk)
                > MaxFileSize(pre.driver)) =>
        /\ last.outcome = "return" /\ last.value \in SizeErrors
        /\ ~Dispatched

\* The Send failed in validation, in the size check, or on a file.
C24_Failed ==
    \/ FailedValidation
    \/ /\ last.outcome = "return"
       /\ \/ last.value \in SizeErrors
          \/ \E p \in Named(pre) : last.value \in {PathError("stat", p), PathError("open", p)}

\* C24: a Send that fails leaves the adapter as it was: for every adapter,
\* after a Send that panics in validation, or returns the size error or the
\* error of a file it cannot read, the message fields and the resolved
\* attachments are those before the call.
C24_FailedSendLeavesState ==
    (Sent /\ C24_Failed) => m = pre

\* How many attachments a request holds.
C25_Count(d, req) ==
    CASE d = SENDGRID -> Len(req.body.attachments)
      [] d = POSTMARK -> Len(req.body.Attachments)
      [] d = MAILJET -> Len(req.body.Messages[1].Attachments)
                          + Len(req.body.Messages[1].InlinedAttachments)
      [] d = CUSTOMERIO -> Cardinality(DOMAIN req.body.Attachments)
      [] d = MAILGUN -> Len(req.files)

\* C25: no attachment is dropped or merged: for every adapter a request
\* holds as many attachments as the message has files, inline files and
\* readers kept, also when two of them have the same final path segment.
C25_NoAttachmentLost ==
    Sent =>
        \A i \in Requests(last.io) :
            C25_Count(pre.driver, last.io[i].req)
                = Len(pre.attachmentFiles) + Len(pre.attachmentInlineFiles)
                    + Cardinality(DOMAIN pre.attachmentReaders)
                    + Cardinality(DOMAIN pre.attachmentInlineReaders)

====
